---- MODULE Spec2Model ----
(***************************************************************************)
(* ReferMii backend: the referral store (models/Referral.js), the REST     *)
(* handlers and the expiry sweeper (server.js), and the scraper pipeline   *)
(* (reddit-scraper.js: extraction, batching, saveReferralToDb).            *)
(*                                                                         *)
(* Every await of the JavaScript code is a point where another handler or  *)
(* timer callback may run, so each handler is cut into one action per      *)
(* awaited store operation.                                                *)
(***************************************************************************)
EXTENDS Integers, Sequences, FiniteSets, TLC

(***************************************************************************)
(* Bounds of the model.                                                    *)
(***************************************************************************)
\* the clock runs over 0..MaxTime
MaxTime == 1
\* handler invocations (saves, API requests, sweeper passes) per behaviour
MaxOps == 2
\* posts handed to processPostsInBatches
MaxPosts == 3
\* GEMINI_BATCH_SIZE runs over 1..MaxBatch
MaxBatch == 2
\* pieces of a model reply
MaxReply == 3
\* maxPages of scrapeAllPosts runs over 0..MaxPages
MaxPages == 2

(***************************************************************************)
(* Constants of the source.                                                *)
(***************************************************************************)
\* 60000 / GEMINI_RATE_LIMIT
MinuteMs == 60000
\* setTimeout(resolve, 5000) between batches
BatchPauseMs == 5000
\* process.env.GEMINI_RATE_LIMIT || 15
DefaultRate == 15
\* defaultExpiry.getDate() + 30
ThirtyDays == 30
\* values of GEMINI_RATE_LIMIT: the default, and one whose delay is not a whole number
Rates == {7, DefaultRate}

(***************************************************************************)
(* Values.                                                                 *)
(***************************************************************************)
\* a field that is undefined or null in JavaScript (not stored by mongoose)
Absent == "<absent>"
\* new Date(x) for an unparsable x: an Invalid Date
BadDate == 0 - 1
\* an expiration date that passes while the model runs, and one that does not
Soon == MaxTime - 1
Late == MaxTime + 1

\* JavaScript truthiness of a string-valued field
Truthy(v) == v # Absent /\ v # ""

\* a date that is missing: expirationDate of a decoded object that is missing,
\* null or "", postDate of a request body without that key
NoDate == 0 - 2

\* new Date(post.created_utc * 1000) of the p-th post of the feed, which lists the
\* newest post first
Created(p) == NoDate - p

\* referralData with no tags, of the first post of a feed
Cand(b, c, l, e) ==
    [isNull |-> FALSE, brand |-> b, code |-> c, link |-> l, exp |-> e,
     tags |-> {}, postDate |-> Created(1)]
\* referralData === null
NullCand ==
    [isNull |-> TRUE, brand |-> Absent, code |-> Absent, link |-> Absent, exp |-> BadDate,
     tags |-> {}, postDate |-> NoDate]

\* candidates that carry a brand and a code or a link
Keyed ==
    {Cand("acme", "c1", "l1", Soon), Cand("acme", "c2", "l1", Soon), Cand("acme", "c1", Absent, Soon),
     Cand("acme", Absent, "l1", Soon), Cand("acme", Absent, "l2", Soon)}
\* the same with a date the Date constructor cannot parse
Undated == {Cand("acme", "c2", "l1", BadDate)}
\* candidates without a brand, or with neither code nor link
Unkeyed == {NullCand, Cand("", "c1", "l1", Soon), Cand("acme", "", Absent, Soon)}

\* what extraction can hand to saveReferralToDb
Candidates == Keyed \cup Undated \cup Unkeyed
\* request bodies of POST and PUT, without the keys tags and postDate: complete ones,
\* one with a code only, one with a link only, one that differs from another in its
\* date only, and the ones the middleware turns down
Bodies ==
    {[c EXCEPT !.postDate = NoDate] :
        c \in {Cand("acme", "c1", "l1", Soon), Cand("acme", "c1", Absent, Soon),
               Cand("acme", Absent, "l2", Soon), Cand("acme", "c1", "l1", Late),
               Cand("acme", "c2", "l1", BadDate), Cand("", "c1", "l1", Soon),
               Cand("acme", "", Absent, Soon)}}

Savers == {"run1", "run2"}

VARIABLES
    store,        \* the referrals collection: a set of documents
    nextId,       \* the next _id the store hands out
    now,          \* the clock (new Date())
    pairIndex,    \* whether the collection also carries the unique index {brand, code}
    ops,          \* handler invocations started so far
    sv,           \* per scraper run: the saveReferralToDb call in flight or last returned
    last,         \* the saveReferralToDb call that returned last, unless another writer came after it
    post,         \* the POST /api/referrals request in flight or last answered
    put,          \* the PUT /api/referrals/:id request in flight or last answered
    sw,           \* the expiry sweeper's pass
    cfg,          \* one scraper run: its post list length and its environment settings
    pl,           \* one scraper run: the position and locals of processPostsInBatches
    drv,          \* one scraper run: the position and locals of main and scrapeAllPosts
    get,          \* the GET /api/referrals request answered last
    del           \* the DELETE /api/referrals/:id request in flight or last answered

vars == <<store, nextId, now, pairIndex, ops, sv, last, post, put, sw, cfg, pl, drv, get, del>>

(***************************************************************************)
(* models/Referral.js                                                      *)
(***************************************************************************)
Triple(d) == <<d.brand, d.code, d.link>>

\* the index consulted when a document is inserted but not when one is updated
TripleClashOnInsertOnly(S, d, self) ==
    self = 0 /\ \E r \in S : Triple(r) = Triple(d)

\* referralSchema.index({ brand: 1, code: 1, link: 1 }, { unique: true })
TripleClash(S, d, self) ==
    \E r \in S : r.id # self /\ Triple(r) = Triple(d)

\* referralSchema.index({ brand: 1, code: 1 }, { unique: true }) of the variant
PairClash(S, d, self) ==
    \E r \in S : r.id # self /\ r.brand = d.brand /\ r.code = d.code

\* a collection whose unique indexes were never built
NoUniqueIndex(S, d, self, pair) == FALSE

\* E11000: writing document d (whose _id is self) violates a unique index
UniqueViolation(S, d, self, pair) ==
    TripleClash(S, d, self) \/ (pair /\ PairClash(S, d, self))

\* referralSchema.statics.checkDuplicate(brand, code, link)
CheckDuplicate(S, brand, code, link) ==
    IF ~Truthy(brand) THEN FALSE
    ELSE IF Truthy(code) /\ Truthy(link)
         THEN \E r \in S : r.brand = brand /\ (r.code = code \/ r.link = link)
    ELSE IF Truthy(code)
         THEN \E r \in S : r.brand = brand /\ r.code = code
    ELSE IF Truthy(link)
         THEN \E r \in S : r.brand = brand /\ r.link = link
    ELSE FALSE

\* checkDuplicate(brand, code) of the variant
CheckDuplicateV1(S, brand, code) ==
    IF ~Truthy(code) THEN FALSE
    ELSE \E r \in S : r.brand = brand /\ r.code = code

\* referralSchema.methods.validateCode
ValidateCode == TRUE

\* referralSchema.pre('save'): modified is isModified('code') || isModified('link')
PreSave(d, modified, t) ==
    IF modified
    THEN [d EXCEPT !.isValid = ValidateCode, !.lastValidated = t]
    ELSE d

\* schema validation of a document at save(): brand required, code or link, a castable date
SchemaValid(d) ==
    /\ d.brand # Absent /\ d.brand # ""
    /\ (Truthy(d.code) \/ Truthy(d.link))
    /\ d.exp # BadDate

\* new Referral({...}): the document built from a candidate or a request body
NewDoc(c, id, t) ==
    [id |-> id, brand |-> c.brand, code |-> c.code, link |-> c.link,
     exp |-> c.exp, isValid |-> TRUE, lastValidated |-> t,
     tags |-> c.tags, postDate |-> IF c.postDate = NoDate THEN t ELSE c.postDate]

\* isModified('code') || isModified('link') of a document that was just constructed
NewModified(d) == d.code # Absent \/ d.link # Absent

(***************************************************************************)
(* reddit-scraper.js: saveReferralToDb                                     *)
(***************************************************************************)
\* the guard without its test of code and link
EligibleByBrand(c) ==
    ~c.isNull /\ Truthy(c.brand)

\* the guard of line 250: the candidate is worth a store access
Eligible(c) ==
    ~c.isNull /\ Truthy(c.brand) /\ (Truthy(c.code) \/ Truthy(c.link))

\* a run that saves without asking for duplicates
ScraperNeverDuplicate(S, c, pair) == FALSE

\* Referral.checkDuplicate(referralData.brand, referralData.code): the scraper
\* passes two arguments, so link is undefined in the three-argument version
ScraperDuplicate(S, c, pair) ==
    IF pair THEN CheckDuplicateV1(S, c.brand, c.code)
    ELSE CheckDuplicate(S, c.brand, c.code, Absent)

\* whether that call of checkDuplicate reaches findOne: the three-argument version
\* returns before it without a brand or without a code (link is undefined), the
\* variant without a code
ScraperAsks(c, pair) ==
    IF pair THEN Truthy(c.code) ELSE Truthy(c.brand) /\ Truthy(c.code)

\* the store operations a call has issued when checkDuplicate has answered
Asked(c, pair) == IF ScraperAsks(c, pair) THEN 1 ELSE 0

\* what `await referral.save()` does to the store and which way it ends
\*   "inserted" | "invalid" (ValidationError) | "e11000" | "storeError"
SaveOutcome(S, d, pair, fault) ==
    IF ~SchemaValid(d) THEN "invalid"
    ELSE IF fault THEN "storeError"
    ELSE IF UniqueViolation(S, d, 0, pair) THEN "e11000"
    ELSE "inserted"

\* a catch block that logs and rethrows
CatchRethrows(out) == [ret |-> FALSE, raised |-> TRUE]

\* the catch block of saveReferralToDb (line 277-280): log, return false
CatchBlock(out) == [ret |-> FALSE, raised |-> FALSE]
Skips == [ret |-> FALSE, raised |-> FALSE]
Saves == [ret |-> TRUE, raised |-> FALSE]

\* at: the reading of the clock the document of the call was built with
Idle == [pc |-> "idle", cand |-> NullCand, prev |-> "none", at |-> 0]
NoCall == [by |-> "", cand |-> NullCand, ret |-> FALSE, raised |-> FALSE, out |-> "none",
           acc |-> 0, prev |-> "none"]

\* the branch taken by the previous call of run s, when that call had the same
\* (brand, code, link) and no handler other than a scraper run wrote to the store since
Repeats(s, c) ==
    IF last.by # s \/ c.isNull \/ Triple(last.cand) # Triple(c) THEN "none" ELSE last.out

\* a handler other than a scraper run has written to the store
Wrote ==
    /\ last' = NoCall
    /\ sv' = [s \in Savers |-> [sv[s] EXCEPT !.prev = "none"]]

\* the call of run s ends: res is what the caller gets, out the branch taken,
\* acc the store operations the call issued
Returned(s, c, p, res, o, acc) ==
    /\ sv' = [sv EXCEPT ![s] = IF res.raised THEN [Idle EXCEPT !.pc = "raised"] ELSE Idle]
    /\ last' = [by |-> s, cand |-> c, ret |-> res.ret, raised |-> res.raised, out |-> o,
                acc |-> acc, prev |-> p]

\* line 250-252: the pre-check, no await before it
SaveBegin(s) ==
    /\ sv[s].pc = "idle"
    /\ ops < MaxOps
    /\ ops' = ops + 1
    /\ \E c \in Candidates :
         IF Eligible(c)
         THEN /\ sv' = [sv EXCEPT ![s] = [pc |-> "check", cand |-> c, prev |-> Repeats(s, c), at |-> 0]]
              /\ UNCHANGED last
         ELSE Returned(s, c, Repeats(s, c), Skips, "precheck", 0)
    /\ UNCHANGED <<store, nextId, now, pairIndex, post, put, sw, cfg, pl, drv, get, del>>

\* line 256-272: await Referral.checkDuplicate(...) is answered; when it found
\* nothing the document is built (lastValidated: new Date()) and save() is called,
\* whose hook reads the clock again before the insert is sent
SaveCheck(s) ==
    /\ sv[s].pc = "check"
    /\ \E fault \in BOOLEAN :
         IF fault /\ ScraperAsks(sv[s].cand, pairIndex)
         THEN Returned(s, sv[s].cand, sv[s].prev, CatchBlock("storeError"), "storeError", 1)
         ELSE IF ScraperDuplicate(store, sv[s].cand, pairIndex)
              THEN Returned(s, sv[s].cand, sv[s].prev, Skips, "dup", 1)
         ELSE /\ sv' = [sv EXCEPT ![s].pc = "insert", ![s].at = now]
              /\ UNCHANGED last
    /\ UNCHANGED <<store, nextId, now, pairIndex, ops, post, put, sw, cfg, pl, drv, get, del>>

\* line 274-280: the store answers the insert of the document built at sv[s].at;
\* return true, or the catch
SaveInsert(s) ==
    /\ sv[s].pc = "insert"
    /\ \E fault \in BOOLEAN :
         LET c == sv[s].cand
             d == PreSave(NewDoc(c, nextId, sv[s].at), NewModified(NewDoc(c, nextId, sv[s].at)),
                          sv[s].at)
             o == SaveOutcome(store, d, pairIndex, fault)
         IN  IF o = "inserted"
             THEN /\ store' = store \cup {d}
                  /\ nextId' = nextId + 1
                  /\ Returned(s, c, sv[s].prev, Saves, o, Asked(c, pairIndex) + 1)
             ELSE /\ UNCHANGED <<store, nextId>>
                  /\ Returned(s, c, sv[s].prev, CatchBlock(o), o,
                              IF o = "invalid" THEN Asked(c, pairIndex)
                              ELSE Asked(c, pairIndex) + 1)
    /\ UNCHANGED <<now, pairIndex, ops, post, put, sw, cfg, pl, drv, get, del>>

(***************************************************************************)
(* server.js: the REST handlers                                            *)
(***************************************************************************)
\* a middleware that does not ask for duplicates
ValidateReferralNoDuplicate(S, b) ==
    /\ Truthy(b.brand)
    /\ (Truthy(b.code) \/ Truthy(b.link))
    /\ b.exp # BadDate

\* the validateReferral middleware: TRUE when validationResult(req) is empty
ValidateReferral(S, b) ==
    /\ Truthy(b.brand)
    /\ (Truthy(b.code) \/ Truthy(b.link))
    /\ ~CheckDuplicate(S, b.brand, b.code, b.link)
    /\ b.exp # BadDate

\* at: the reading of the clock the document of the request was built or hooked with
Quiet == [pc |-> "idle", id |-> 0, body |-> NullCand, mods |-> {}, status |-> 0,
          errors |-> {}, loaded |-> TRUE, at |-> 0]
Answer(code) == [Quiet EXCEPT !.status = code]

\* whether the checkDuplicate of the middleware reaches findOne: it returns before
\* it without a brand, and without both code and link
ValidatorAsks(b) == Truthy(b.brand) /\ (Truthy(b.code) \/ Truthy(b.link))

\* errors.array(): which messages the 400 carries; when findOne rejects, the
\* custom validator of code fails with the error of the store
ValidationErrors(S, b, fault) ==
    (IF ~Truthy(b.brand) THEN {"Brand name is required"} ELSE {})
        \cup (IF ~Truthy(b.code) /\ ~Truthy(b.link)
              THEN {"Either code or link must be provided"}
              ELSE IF fault /\ ValidatorAsks(b)
              THEN {"store error"}
              ELSE IF CheckDuplicate(S, b.brand, b.code, b.link)
              THEN {"This referral already exists for this brand"}
              ELSE {})
        \cup (IF b.exp = BadDate THEN {"Valid expiration date is required"} ELSE {})

\* line 108-111 and 141-144: res.status(400).json({ errors: errors.array() })
Rejected(S, b, fault) == [Answer(400) EXCEPT !.errors = ValidationErrors(S, b, fault)]

\* the _ids a request can name: those handed out, and one that was not
Ids == 1..nextId
Doc(S, id) == CHOOSE r \in S : r.id = id
Has(S, id) == \E r \in S : r.id = id

\* app.post('/api/referrals'): the middleware, then line 108-118: a request that
\* passed has its document built (postDate: Date.now) and save() called, whose hook
\* reads the clock, before the insert is sent
PostValidate ==
    /\ post.pc = "idle"
    /\ ops < MaxOps
    /\ ops' = ops + 1
    /\ \E b \in Bodies, fault \in BOOLEAN :
         post' = IF ValidateReferral(store, b) /\ ~(fault /\ ValidatorAsks(b))
                 THEN [Quiet EXCEPT !.pc = "save", !.body = b, !.at = now]
                 ELSE Rejected(store, b, fault)
    /\ UNCHANGED <<store, nextId, now, pairIndex, sv, last, put, sw, cfg, pl, drv, get, del>>

\* line 118-122: the store answers the insert of the document built at post.at;
\* 201 or the catch's 400
PostSave ==
    /\ post.pc = "save"
    /\ \E fault \in BOOLEAN :
         LET d == PreSave(NewDoc(post.body, nextId, post.at),
                          NewModified(NewDoc(post.body, nextId, post.at)), post.at)
         IN  IF SaveOutcome(store, d, pairIndex, fault) = "inserted"
             THEN /\ store' = store \cup {d}
                  /\ nextId' = nextId + 1
                  /\ post' = Answer(201)
                  /\ Wrote
             ELSE /\ post' = Answer(400)
                  /\ UNCHANGED <<store, nextId, last, sv>>
    /\ UNCHANGED <<now, pairIndex, ops, put, sw, cfg, pl, drv, get, del>>

\* app.put('/api/referrals/:id'): the middleware, then line 141-144
PutValidate ==
    /\ put.pc = "idle"
    /\ ops < MaxOps
    /\ ops' = ops + 1
    /\ \E id \in Ids, b \in Bodies, fault \in BOOLEAN :
         put' = IF ValidateReferral(store, b) /\ ~(fault /\ ValidatorAsks(b))
                THEN [Quiet EXCEPT !.pc = "find", !.id = id, !.body = b]
                ELSE [Rejected(store, b, fault) EXCEPT !.id = id]
    /\ UNCHANGED <<store, nextId, now, pairIndex, sv, last, post, sw, cfg, pl, drv, get, del>>

\* the paths that `referral[key] = req.body[key]` marks modified: a key the body
\* lacks is not assigned, an equal value is not a modification; the bodies have no
\* key tags, so the tags of the document are never assigned
Assigned(d, b) ==
    {f \in {"brand", "code", "link"} : b[f] # Absent /\ b[f] # d[f]}
        \cup (IF b.exp # d.exp THEN {"exp"} ELSE {})
        \cup (IF b.postDate # NoDate /\ b.postDate # d.postDate THEN {"postDate"} ELSE {})

\* the document with the modified paths written
Merge(d, b, mods) ==
    [f \in DOMAIN d |-> IF f \in mods THEN b[f] ELSE d[f]]

\* line 146-158: await Referral.findById, 404, the assignments, and save() is
\* called, whose hook reads the clock before the update is sent; the catch's 400
\* when findById rejects
PutFind ==
    /\ put.pc = "find"
    /\ \E fault \in BOOLEAN :
         put' = IF fault THEN Answer(400)
                ELSE IF Has(store, put.id)
                THEN [put EXCEPT !.pc = "save", !.mods = Assigned(Doc(store, put.id), put.body),
                                 !.loaded = Doc(store, put.id).isValid, !.at = now]
                ELSE Answer(404)
    /\ UNCHANGED <<store, nextId, now, pairIndex, ops, sv, last, post, sw, cfg, pl, drv, get, del>>

\* save() of a document that was read sends $set of its modified paths: isValid is
\* among them only when the value of the document differs from the one findById
\* loaded; otherwise the stored value stays
WrittenBack(cur, hooked, loaded) ==
    [hooked EXCEPT !.isValid = IF hooked.isValid = loaded THEN cur.isValid
                               ELSE hooked.isValid]

\* line 158-162: the store answers the update of the modified paths of the
\* document, hooked at put.at
PutSave ==
    /\ put.pc = "save"
    /\ \E fault \in BOOLEAN, raises \in BOOLEAN :
         IF put.mods = {}
         THEN /\ put' = Answer(200)
              /\ UNCHANGED <<store, last, sv>>
         ELSE IF fault
         THEN /\ put' = Answer(400)
              /\ UNCHANGED <<store, last, sv>>
         ELSE IF ~Has(store, put.id)
         THEN \* the document was removed since findById: the update matches nothing, and
              \* save() raises DocumentNotFoundError or not with the mongoose version
              /\ put' = IF raises THEN Answer(400) ELSE Answer(200)
              /\ UNCHANGED <<store, last, sv>>
         ELSE LET cur == Doc(store, put.id)
                  mine == [Merge(cur, put.body, put.mods) EXCEPT !.isValid = put.loaded]
                  d == WrittenBack(cur, PreSave(mine, "code" \in put.mods \/ "link" \in put.mods,
                                                put.at),
                                   put.loaded)
              IN  IF UniqueViolation(store, d, put.id, pairIndex)
                  THEN /\ put' = Answer(400)
                       /\ UNCHANGED <<store, last, sv>>
                  ELSE /\ store' = (store \ {cur}) \cup {d}
                       /\ put' = Answer(200)
                       /\ Wrote
    /\ UNCHANGED <<nextId, now, pairIndex, ops, post, sw, cfg, pl, drv, get, del>>

\* no GET /api/referrals answered yet
NoList == [pc |-> "idle", status |-> 0, list |-> << >>, at |-> 0,
           search |-> Absent, brand |-> Absent]

\* req.query.search and req.query.brand: not given (or empty), or a word
Filters == {Absent, "acme", "ACME", "ac", "zeta"}

\* new RegExp(pattern, 'i').test(text): the pattern occurs in the text, letter case
\* aside; the patterns are words without special characters, the texts are the
\* brands and tags of the model
Fold(s) == IF s = "ACME" THEN "acme" ELSE s
Within(pattern, text) == pattern = text \/ (pattern = "ac" /\ text = "acme")
RegExpTest(pattern, text) == Within(Fold(pattern), Fold(text))

\* { tags: regexp } on an array field: some element matches
TagsMatch(pattern, tags) == \E g \in tags : RegExpTest(pattern, g)

\* a query that leaves out isValid: true
ListAnyValidity(S, t, search, brand) ==
    {r \in S : /\ r.exp > t
               /\ (search # Absent => RegExpTest(search, r.brand) \/ TagsMatch(search, r.tags))
               /\ (brand # Absent => RegExpTest(brand, r.brand))}

\* line 83-96: { isValid: true, expirationDate: { $gt: new Date() } } with
\* $or: [{ brand }, { tags }] for search and brand for brand
ListQuery(S, t, search, brand) ==
    {r \in S : /\ r.isValid
               /\ r.exp > t
               /\ (search # Absent => RegExpTest(search, r.brand) \/ TagsMatch(search, r.tags))
               /\ (brand # Absent => RegExpTest(brand, r.brand))}

\* line 97: .sort({ postDate: -1 }): the orders the store can return, newest
\* postDate first; records with equal postDate come in any order
RECURSIVE ByPostDateDesc(_)
ByPostDateDesc(S) ==
    IF S = {} THEN {<< >>}
    ELSE UNION {{<<m>> \o rest : rest \in ByPostDateDesc(S \ {m})} :
                   m \in {r \in S : \A q \in S : q.postDate <= r.postDate}}

\* app.get('/api/referrals'), line 82-96: the filter is built with new Date() and
\* the filters of the request, and find is issued
GetList ==
    /\ get.pc = "idle"
    /\ \E search \in Filters, brand \in Filters :
         get' = [NoList EXCEPT !.pc = "find", !.at = now, !.search = search, !.brand = brand]
    /\ UNCHANGED <<store, nextId, now, pairIndex, ops, sv, last, post, put, sw, cfg, pl, drv, del>>

\* line 96-103: the store applies the filter, built at get.at, to the collection as
\* it is when it answers, and sorts; res.json, or 500 when find throws
GetFound ==
    /\ get.pc = "find"
    /\ \E fault \in BOOLEAN :
         IF fault
         THEN get' = [NoList EXCEPT !.status = 500, !.at = get.at]
         ELSE \E list \in ByPostDateDesc(ListQuery(store, get.at, get.search, get.brand)) :
                get' = [NoList EXCEPT !.status = 200, !.at = get.at, !.list = list]
    /\ UNCHANGED <<store, nextId, now, pairIndex, ops, sv, last, post, put, sw, cfg, pl, drv, del>>

\* no DELETE /api/referrals/:id in flight or answered
NoDelete == [pc |-> "idle", id |-> 0, status |-> 0]

\* app.delete('/api/referrals/:id'), line 168-171: await Referral.findById, 404,
\* or the catch's 500 when findById rejects
DeleteFind ==
    /\ del.pc = "idle"
    /\ ops < MaxOps
    /\ ops' = ops + 1
    /\ \E id \in Ids, fault \in BOOLEAN :
         del' = IF fault THEN [NoDelete EXCEPT !.status = 500]
                ELSE IF Has(store, id) THEN [pc |-> "remove", id |-> id, status |-> 0]
                ELSE [NoDelete EXCEPT !.status = 404]
    /\ UNCHANGED <<store, nextId, now, pairIndex, sv, last, post, put, sw, cfg, pl, drv, get>>

\* line 173-177: await referral.remove() deletes by _id, 200; the catch's 500
\* when the store fails
DeleteRemove ==
    /\ del.pc = "remove"
    /\ \E fault \in BOOLEAN :
         IF fault
         THEN /\ del' = [NoDelete EXCEPT !.status = 500]
              /\ UNCHANGED <<store, last, sv>>
         ELSE /\ del' = [NoDelete EXCEPT !.status = 200]
              /\ store' = {r \in store : r.id # del.id}
              /\ IF Has(store, del.id) THEN Wrote ELSE UNCHANGED <<last, sv>>
    /\ UNCHANGED <<nextId, now, pairIndex, ops, post, put, sw, cfg, pl, drv, get>>

(***************************************************************************)
(* server.js: validateExpiredCodes, run by setInterval                     *)
(***************************************************************************)
\* a query that leaves out isValid: true
ExpiredAnyValidity(S, t) == {r \in S : r.exp < t}

\* a query with $lte in place of $lt
ExpiredOrDue(S, t) == {r \in S : r.exp <= t /\ r.isValid}

\* Referral.find({ expirationDate: { $lt: new Date() }, isValid: true })
Expired(S, t) == {r \in S : r.exp < t /\ r.isValid}

RECURSIVE InOrder(_)
\* the orders in which find can return the documents: no sort is asked for
InOrder(ids) ==
    IF ids = {} THEN {<< >>}
    ELSE UNION {{<<m>> \o rest : rest \in InOrder(ids \ {m})} : m \in ids}

Asleep == [pc |-> "idle", q |-> << >>, sel |-> {}, bad |-> 0, err |-> FALSE, at |-> 0,
           upto |-> 0]

\* line 183-186: the filter is built with new Date() and find is issued
SweepIssue == sw' = [Asleep EXCEPT !.pc = "find", !.at = now]

\* line 183-186: what the query resolves to: the store applies the filter, built
\* at sw.at, to the collection as it is when it answers
SweepQuery ==
    \E fault \in BOOLEAN :
         LET ids == {r.id : r \in Expired(store, sw.at)}
         IN  IF fault
             THEN sw' = [Asleep EXCEPT !.err = TRUE, !.at = sw.at, !.upto = nextId]
             ELSE \E q \in InOrder(ids) :
                    sw' = [pc |-> IF ids = {} THEN "idle" ELSE "run",
                           q |-> q, sel |-> ids, bad |-> 0, err |-> FALSE,
                           at |-> sw.at, upto |-> nextId]

\* validateExpiredCodes is called: a pass starts
SweepFind ==
    /\ sw.pc = "idle"
    /\ ops < MaxOps
    /\ ops' = ops + 1
    /\ SweepIssue
    /\ UNCHANGED <<store, nextId, now, pairIndex, sv, last, post, put, cfg, pl, drv, get, del>>

\* line 201: the interval timer fires, hour after hour, and a pass starts
SweepTimer ==
    /\ sw.pc = "idle"
    /\ SweepIssue
    /\ UNCHANGED <<store, nextId, now, pairIndex, ops, sv, last, post, put, cfg, pl, drv, get, del>>

\* await Referral.find(...) is answered, or fails into the catch
SweepFound ==
    /\ sw.pc = "find"
    /\ SweepQuery
    /\ UNCHANGED <<store, nextId, now, pairIndex, ops, sv, last, post, put, cfg, pl, drv, get, del>>

\* what the pass does after the save of one document: go on, or leave through the catch
AfterSave(w, failed) ==
    IF failed THEN [w EXCEPT !.pc = "idle", !.q = << >>, !.bad = Head(w.q), !.err = TRUE]
    ELSE [w EXCEPT !.pc = IF Len(w.q) = 1 THEN "idle" ELSE "run", !.q = Tail(w.q)]

\* a pass that saves the document as it found it
InvalidateNothing(d, t) == d

\* the write of `referral.isValid = false; await referral.save()`
Invalidate(d, t) == PreSave([d EXCEPT !.isValid = FALSE], FALSE, t)

\* line 188-191: one turn of the loop
SweepOne ==
    /\ sw.pc = "run"
    /\ \E fault \in BOOLEAN :
         LET id == Head(sw.q)
         IN  IF fault
             THEN /\ sw' = AfterSave(sw, TRUE)
                  /\ UNCHANGED <<store, last, sv>>
             ELSE IF ~Has(store, id)
             THEN \* the document was removed since the query: save() updates nothing,
                  \* and raises DocumentNotFoundError or not with the mongoose version
                  /\ \E raises \in BOOLEAN : sw' = AfterSave(sw, raises)
                  /\ UNCHANGED <<store, last, sv>>
             ELSE /\ store' = (store \ {Doc(store, id)}) \cup {Invalidate(Doc(store, id), now)}
                  /\ sw' = AfterSave(sw, FALSE)
                  /\ Wrote
    /\ UNCHANGED <<nextId, now, pairIndex, ops, post, put, cfg, pl, drv, get, del>>

Tick ==
    /\ now < MaxTime
    /\ now' = now + 1
    /\ UNCHANGED <<store, nextId, pairIndex, ops, sv, last, post, put, sw, cfg, pl, drv, get, del>>

(***************************************************************************)
(* reddit-scraper.js: extractPostDetails                                   *)
(***************************************************************************)
\* the text of a model reply, cut into pieces: an opening brace, a closing brace,
\* "m" for a well-formed list of members, "t" for any other text
Tok == {"{", "}", "m", "t"}
Replies == UNION {[1..n -> Tok] : n \in 0..MaxReply}

\* how model.generateContent(prompt) and result.response.text() can end
ModelOutcomes ==
    {[err |-> TRUE, text |-> << >>]} \cup {[err |-> FALSE, text |-> t] : t \in Replies}

\* the objects a well-formed reply with members can decode to; expirationDate is the
\* string of the reply as it is (line 191-199 replace it only when it is missing):
\* Soon a date string, BadDate a string such as "N/A" that new Date(...) of line 269
\* turns into an Invalid Date, NoDate no expirationDate at all
Decoded ==
    {[brand |-> "acme", code |-> "c1", link |-> "l1", exp |-> Soon],
     [brand |-> "acme", code |-> "c1", link |-> Absent, exp |-> BadDate],
     [brand |-> "acme", code |-> "c1", link |-> Absent, exp |-> NoDate],
     [brand |-> "acme", code |-> Absent, link |-> Absent, exp |-> NoDate],
     [brand |-> "acme", code |-> Absent, link |-> "l1", exp |-> NoDate]}
\* JSON.parse("{}")
EmptyObject == [brand |-> Absent, code |-> Absent, link |-> Absent, exp |-> NoDate]

Positions(t, tok) == {i \in 1..Len(t) : t[i] = tok}
Least(I) == CHOOSE i \in I : \A j \in I : i <= j
Greatest(I) == CHOOSE i \in I : \A j \in I : j <= i

\* responseText.match(/(\{[\s\S]*\})/): from the first "{" to the last "}" after it,
\* << >> when there is no match
JsonMatch(t) ==
    IF Positions(t, "{") = {} THEN << >>
    ELSE LET lo == Least(Positions(t, "{"))
             his == {j \in Positions(t, "}") : j > lo}
         IN  IF his = {} THEN << >> ELSE SubSeq(t, lo, Greatest(his))

\* JSON.parse of the matched text: "empty" for {}, "members" for an object with
\* members, "fail" when it throws SyntaxError
JsonParse(m) ==
    IF m = <<"{", "}">> THEN "empty"
    ELSE IF m = <<"{", "m", "}">> THEN "members"
    ELSE "fail"

\* an inner catch block that hands back an empty object
ParseFailureEmpty == [kind |-> "record", data |-> EmptyObject]

\* the inner catch (line 184-188): log, return null
ParseFailure == [kind |-> "null", data |-> EmptyObject]

\* the outer catch (line 203-206): log, return null
ExtractFailure == [kind |-> "null", data |-> EmptyObject]

\* line 176-188: the match, the parse, the inner catch; x is what the text decodes to
ParseReply(t, x) ==
    IF JsonMatch(t) = << >> THEN ParseFailure
    ELSE IF JsonParse(JsonMatch(t)) = "fail" THEN ParseFailure
    ELSE [kind |-> "record", data |-> x]

\* the process's time zone and the time of day: hour is the UTC hour of the run,
\* tz the zone's offset from UTC in hours at the time of the run, dst the change
\* of that offset that takes effect within the next 30 days
UtcNoon == [hour |-> 12, tz |-> 0, dst |-> 0]
Zones == [hour : {0, 1, 12, 23}, tz : {0 - 8, 0, 1}, dst : {0 - 1, 0, 1}]

\* new Date(): the clock reading c = [day, hour, tz, dst], as hours of local time
LocalHours(c) == c.day * 24 + c.hour + c.tz

\* setDate(getDate() + 30): the local date moves on by 30 days and the local time
\* of day is kept; the result as hours since the epoch (UTC)
SetDatePlus30(c) ==
    ((LocalHours(c) \div 24) + ThirtyDays) * 24 + (LocalHours(c) % 24) - (c.tz + c.dst)

\* toISOString().split('T')[0]: the UTC calendar day of an instant
IsoDate(h) == h \div 24

\* line 191-195: the default expiration date
DefaultExpiry(x, c) ==
    IF x.exp = NoDate THEN [x EXCEPT !.exp = IsoDate(SetDatePlus30(c))] ELSE x

\* extractPostDetails(post) for one outcome o of the model call
ExtractPostDetails(o, x, c) ==
    IF o.err THEN ExtractFailure
    ELSE LET r == ParseReply(o.text, x)
         IN  IF r.kind = "record" THEN [r EXCEPT !.data = DefaultExpiry(r.data, c)] ELSE r

\* what a reply can decode to
Decodings(o) ==
    IF ~o.err /\ JsonParse(JsonMatch(o.text)) = "members" THEN Decoded ELSE {EmptyObject}

(***************************************************************************)
(* reddit-scraper.js: processBatchWithGemini, processPostsInBatches        *)
(***************************************************************************)
\* BATCH_DELAY = Math.ceil(60000 / GEMINI_RATE_LIMIT)
BatchDelay(r) == (MinuteMs + r - 1) \div r

\* allPosts.slice(i, i + GEMINI_BATCH_SIZE).length
BatchLen(i) == IF i + cfg.b <= cfg.n THEN cfg.b ELSE cfg.n - i

\* saveReferralToDb(c) up to the answer of checkDuplicate: the branch it returns
\* by, or "go" when the insert is to come
SaveChecked(S, c, pair, f1) ==
    IF ~Eligible(c) THEN "precheck"
    ELSE IF f1 /\ ScraperAsks(c, pair) THEN "storeError"
    ELSE IF ScraperDuplicate(S, c, pair) THEN "dup"
    ELSE "go"

\* what the call returns when it ends at the check
CheckedResult(o) == IF o = "storeError" THEN CatchBlock(o) ELSE Skips

\* saveReferralToDb(c) from new Referral(...) to its return
SaveInserted(S, c, id, t, pair, f2) ==
    LET d == PreSave(NewDoc(c, id, t), NewModified(NewDoc(c, id, t)), t)
        o == SaveOutcome(S, d, pair, f2)
    IN  IF o = "inserted" THEN [store |-> S \cup {d}, res |-> Saves, out |-> o]
        ELSE [store |-> S, res |-> CatchBlock(o), out |-> o]

NoReply == [err |-> FALSE, text |-> << >>]

\* what the save loop of a run has met so far: candidates that passed the guard of
\* saveReferralToDb, those of them that checkDuplicate(brand, code, link) finds in
\* the store at the time of their call, documents added to the store, and whether
\* every save() that was issued was answered without a store or validation error
NoTally == [elig |-> 0, dups |-> 0, ins |-> 0, clean |-> TRUE]

Tally(t, c, S, r) ==
    [elig |-> IF Eligible(c) THEN t.elig + 1 ELSE t.elig,
     dups |-> IF Eligible(c) /\ CheckDuplicate(S, c.brand, c.code, c.link)
              THEN t.dups + 1 ELSE t.dups,
     ins |-> t.ins + Cardinality(r.store) - Cardinality(S),
     clean |-> t.clean /\ r.out \notin {"storeError", "invalid"}]

\* the run before processPostsInBatches(allPosts) is entered
Ready ==
    [pc |-> "loop", i |-> 0, k |-> 0, j |-> 0, results |-> << >>, total |-> 0, done |-> 0,
     calls |-> 0, asked |-> [p \in 1..MaxPosts |-> 0], cur |-> 0,
     gap |-> 0, lastGap |-> 0, reply |-> NoReply, got |-> "none", decoded |-> EmptyObject,
     tally |-> NoTally, chunks |-> << >>, pauses |-> 0, at |-> 0]

sysVars == <<now, ops, sv, last, post, put, sw, get, del>>

\* responseText and referralData are locals of the call that just returned
Forget(p) == [p EXCEPT !.reply = NoReply, !.got = "none", !.decoded = EmptyObject]

\* new Date() in the process of the run
Reading == [day |-> now, hour |-> cfg.zone.hour, tz |-> cfg.zone.tz, dst |-> cfg.zone.dst]

\* the record of the chunks and of the pauses of a run stops growing at one entry
\* per post, and the measure of the time since the last call at GapCeiling
GapCeiling == 2 * BatchPauseMs

\* line 293-298, 215-218: the loop test, the slice, the entry of processBatchWithGemini;
\* the for loop over an empty slice makes no call
BatchStart ==
    /\ pl.pc = "loop"
    /\ pl' = IF pl.i < cfg.n
             THEN [pl EXCEPT !.pc = IF BatchLen(pl.i) = 0 THEN "save" ELSE "extract",
                             !.k = 0, !.j = 0, !.results = << >>,
                             !.chunks = IF Len(pl.chunks) < cfg.n
                                        THEN Append(pl.chunks,
                                                    [from |-> pl.i + 1, len |-> BatchLen(pl.i)])
                                        ELSE pl.chunks]
             ELSE [pl EXCEPT !.pc = "done"]
    /\ UNCHANGED <<store, nextId, pairIndex, cfg, drv>>
    /\ UNCHANGED sysVars

\* line 220-238: one turn of the loop of processBatchWithGemini up to its delay
Extract ==
    /\ pl.pc = "extract"
    /\ pl.i + pl.k + 1 \notin drv.untitled
    /\ \E o \in ModelOutcomes : \E x \in Decodings(o) :
         LET p == pl.i + pl.k + 1
             r == ExtractPostDetails(o, x, Reading)
             seen == [pl EXCEPT !.k = pl.k + 1, !.calls = pl.calls + 1,
                                !.asked[p] = pl.asked[p] + 1, !.cur = p,
                                !.lastGap = pl.gap, !.gap = 0,
                                !.reply = o, !.got = r.kind,
                                !.decoded = IF r.kind = "record" THEN x ELSE EmptyObject]
         IN  pl' = IF r.kind = "threw" THEN [seen EXCEPT !.pc = "crashed"]
                   ELSE [seen EXCEPT
                           !.results = IF r.kind = "record"
                                       THEN Append(pl.results,
                                                   [post |-> p,
                                                    cand |-> [Cand(r.data.brand, r.data.code,
                                                                   r.data.link, r.data.exp)
                                                                 EXCEPT !.postDate = Created(p)]])
                                       ELSE pl.results,
                           !.pc = IF pl.k + 1 < BatchLen(pl.i) THEN "delay" ELSE "save"]
    /\ UNCHANGED <<store, nextId, pairIndex, cfg, drv>>
    /\ UNCHANGED sysVars

\* line 237: await setTimeout(BATCH_DELAY)
Delay ==
    /\ pl.pc = "delay"
    /\ pl' = [Forget(pl) EXCEPT !.pc = "extract", !.gap = pl.gap + BatchDelay(cfg.r)]
    /\ UNCHANGED <<store, nextId, pairIndex, cfg, drv>>
    /\ UNCHANGED sysVars

\* line 301-302, 250-260: the next result is handed to saveReferralToDb, which
\* returns at its guard or awaits checkDuplicate
SaveNext ==
    /\ pl.pc = "save"
    /\ pl.j < Len(pl.results)
    /\ \E f1 \in BOOLEAN :
         LET c == pl.results[pl.j + 1].cand
             o == SaveChecked(store, c, pairIndex, f1)
             r == [store |-> store, res |-> CheckedResult(o), out |-> o]
         IN  pl' = IF o = "go" THEN [Forget(pl) EXCEPT !.pc = "insert", !.at = now]
                   ELSE IF r.res.raised THEN [Forget(pl) EXCEPT !.pc = "crashed"]
                   ELSE [Forget(pl) EXCEPT !.j = pl.j + 1,
                                          !.tally = Tally(pl.tally, c, store, r)]
    /\ UNCHANGED <<store, nextId, pairIndex, cfg, drv>>
    /\ UNCHANGED sysVars

\* line 274-280, 303: the store answers the insert of the document built at pl.at;
\* the return or the catch, and the count of the loop
SaveNextInsert ==
    /\ pl.pc = "insert"
    /\ \E f2 \in BOOLEAN :
         LET c == pl.results[pl.j + 1].cand
             r == SaveInserted(store, c, nextId, pl.at, pairIndex, f2)
         IN  /\ store' = r.store
             /\ nextId' = IF r.out = "inserted" THEN nextId + 1 ELSE nextId
             /\ pl' = IF r.res.raised THEN [pl EXCEPT !.pc = "crashed", !.at = 0]
                      ELSE [pl EXCEPT !.pc = "save", !.j = pl.j + 1, !.at = 0,
                                      !.total = IF r.res.ret THEN pl.total + 1 ELSE pl.total,
                                      !.tally = Tally(pl.tally, c, store, r)]
    /\ UNCHANGED <<pairIndex, cfg, drv>>
    /\ UNCHANGED sysVars

\* a test that also holds when the batch just done is the last full one
MorePostsInclusive(i) == i + cfg.b <= cfg.n

\* line 310: i + GEMINI_BATCH_SIZE < allPosts.length
MorePosts(i) == i + cfg.b < cfg.n

\* line 306-310, 293: the batch is done; the test for the pause, or i += GEMINI_BATCH_SIZE
BatchEnd ==
    /\ pl.pc = "save"
    /\ pl.j = Len(pl.results)
    /\ pl' = IF MorePosts(pl.i)
             THEN [Forget(pl) EXCEPT !.pc = "pause", !.done = pl.done + BatchLen(pl.i)]
             ELSE [Forget(pl) EXCEPT !.pc = "loop", !.done = pl.done + BatchLen(pl.i),
                             !.i = pl.i + cfg.b]
    /\ UNCHANGED <<store, nextId, pairIndex, cfg, drv>>
    /\ UNCHANGED sysVars

\* line 312, 293: await setTimeout(5000), then i += GEMINI_BATCH_SIZE
Pause ==
    /\ pl.pc = "pause"
    /\ pl' = [pl EXCEPT !.pc = "loop", !.i = pl.i + cfg.b,
                       !.gap = IF pl.gap + BatchPauseMs < GapCeiling
                               THEN pl.gap + BatchPauseMs ELSE GapCeiling,
                       !.pauses = IF pl.pauses < cfg.n THEN pl.pauses + 1 ELSE pl.pauses]
    /\ UNCHANGED <<store, nextId, pairIndex, cfg, drv>>
    /\ UNCHANGED sysVars

(***************************************************************************)
(* reddit-scraper.js: getSubredditPosts, scrapeAllPosts, main              *)
(***************************************************************************)
\* how axios.get(url) can end: rejected, a body without data.data.children, or a
\* listing of k posts with or without an `after` token; untitled: its first post
\* has no title
FetchOutcomes(room) ==
    {[kind |-> "error", k |-> 0, more |-> FALSE, untitled |-> FALSE],
     [kind |-> "shape", k |-> 0, more |-> FALSE, untitled |-> FALSE]}
        \cup {[kind |-> "page", k |-> k, more |-> m, untitled |-> u] :
                 k \in 0..room, m \in BOOLEAN, u \in BOOLEAN}

\* a catch block that logs and rethrows
FetchRethrows == [k |-> 0, more |-> FALSE, raised |-> TRUE]

\* line 89-90 and the catch of line 97-100: { posts: [], after: null }
FetchFailure == [k |-> 0, more |-> FALSE, raised |-> FALSE]

\* getSubredditPosts(after): the posts and the token it resolves to
GetSubredditPosts(o) ==
    IF o.kind = "page" THEN [k |-> o.k, more |-> o.more, raised |-> FALSE]
    ELSE FetchFailure

\* the run of reddit-scraper.js before main() is called
Parked ==
    [pc |-> "off", maxPages |-> 0, pageCount |-> 0, after |-> FALSE, allPosts |-> << >>,
     fetches |-> 0, served |-> 0, lastFetch |-> "none", untitled |-> {},
     outcome |-> "none", threw |-> FALSE]

\* allPosts.concat(posts), the posts numbered in the order the feed served them
Concat(all, from, k) == all \o [i \in 1..k |-> from + i]

\* line 323-325, 109-113: main enters scrapeAllPosts
ScrapeStart ==
    /\ drv.pc = "main"
    /\ drv' = [drv EXCEPT !.pc = "pages"]
    /\ UNCHANGED <<store, nextId, pairIndex, cfg, pl>>
    /\ UNCHANGED sysVars

\* line 115-132: the loop test and one turn of the loop up to its delay
FetchPage ==
    /\ drv.pc = "pages"
    /\ IF drv.pageCount < drv.maxPages
       THEN \E o \in FetchOutcomes(MaxPosts - Len(drv.allPosts)) :
              LET g == GetSubredditPosts(o)
                  met == [drv EXCEPT !.pageCount = drv.pageCount + 1,
                                     !.fetches = drv.fetches + 1,
                                     !.served = drv.served + o.k,
                                     !.lastFetch = IF o.kind # "page" THEN "failed"
                                                   ELSE IF o.k = 0 THEN "empty"
                                                   ELSE IF o.more THEN "more" ELSE "last"]
                  kept == [met EXCEPT !.allPosts = Concat(drv.allPosts, drv.served, g.k),
                                      !.after = g.more,
                                      !.untitled = IF o.untitled /\ g.k > 0
                                                   THEN drv.untitled \cup {drv.served + 1}
                                                   ELSE drv.untitled]
              IN  drv' = IF g.raised
                         THEN [met EXCEPT !.pc = "finally", !.threw = TRUE, !.outcome = "error"]
                         ELSE IF g.k = 0 THEN [met EXCEPT !.pc = "scraped"]
                         ELSE IF ~g.more THEN [kept EXCEPT !.pc = "scraped"]
                         ELSE [kept EXCEPT !.pc = "pagewait"]
       ELSE drv' = [drv EXCEPT !.pc = "scraped"]
    /\ UNCHANGED <<store, nextId, pairIndex, cfg, pl>>
    /\ UNCHANGED sysVars

\* line 135: await setTimeout(1000)
PageWait ==
    /\ drv.pc = "pagewait"
    /\ drv' = [drv EXCEPT !.pc = "pages"]
    /\ UNCHANGED <<store, nextId, pairIndex, cfg, pl>>
    /\ UNCHANGED sysVars

\* line 138-139, 327-333: scrapeAllPosts returns; no posts, or processPostsInBatches
MainBranch ==
    /\ drv.pc = "scraped"
    /\ IF Len(drv.allPosts) = 0
       THEN /\ drv' = [drv EXCEPT !.pc = "finally", !.outcome = "noPosts"]
            /\ UNCHANGED <<cfg, pl>>
       ELSE /\ drv' = [drv EXCEPT !.pc = "process"]
            /\ cfg' = [cfg EXCEPT !.n = Len(drv.allPosts)]
            /\ pl' = [pl EXCEPT !.pc = "loop"]
    /\ UNCHANGED <<store, nextId, pairIndex>>
    /\ UNCHANGED sysVars

\* line 221-222: post.title.substring(...) of a post without a title throws
\* TypeError outside every try of the pipeline
TitleFault ==
    /\ pl.pc = "extract"
    /\ pl.i + pl.k + 1 \in drv.untitled
    /\ pl' = [pl EXCEPT !.pc = "crashed", !.k = pl.k + 1]
    /\ UNCHANGED <<store, nextId, pairIndex, cfg, drv>>
    /\ UNCHANGED sysVars

\* line 335-338: processPostsInBatches has returned, the results are logged
MainReport ==
    /\ drv.pc = "process"
    /\ pl.pc = "done"
    /\ drv' = [drv EXCEPT !.pc = "finally", !.outcome = "complete"]
    /\ UNCHANGED <<store, nextId, pairIndex, cfg, pl>>
    /\ UNCHANGED sysVars

\* line 340-341: the catch of main logs the exception
MainCatch ==
    /\ drv.pc = "process"
    /\ pl.pc = "crashed"
    /\ drv' = [drv EXCEPT !.pc = "finally", !.outcome = "error"]
    /\ UNCHANGED <<store, nextId, pairIndex, cfg, pl>>
    /\ UNCHANGED sysVars

\* line 342-347: finally arms the one-second timer
MainFinally ==
    /\ drv.pc = "finally"
    /\ drv' = [drv EXCEPT !.pc = "grace"]
    /\ UNCHANGED <<store, nextId, pairIndex, cfg, pl>>
    /\ UNCHANGED sysVars

\* line 344-347: the timer fires: 'Script completed', process.exit(0)
ProcessExit ==
    /\ drv.pc = "grace"
    /\ drv' = [drv EXCEPT !.pc = "exited"]
    /\ UNCHANGED <<store, nextId, pairIndex, cfg, pl>>
    /\ UNCHANGED sysVars

\* the collection outlives the processes: what a start can find in it
SeedB == [id |-> 1, brand |-> "acme", code |-> Absent, link |-> "l2", exp |-> Soon,
          isValid |-> TRUE, lastValidated |-> 0, tags |-> {}, postDate |-> 0]
SeedA == [id |-> 2, brand |-> "acme", code |-> "c1", link |-> "l1", exp |-> Soon,
          isValid |-> TRUE, lastValidated |-> 0, tags |-> {}, postDate |-> 0]
Seeds == {{SeedB}, {SeedB, SeedA}}

Init ==
    /\ store \in Seeds
    /\ nextId = Cardinality(store) + 1
    /\ now = 0
    /\ pairIndex \in BOOLEAN
    /\ ops = 0
    /\ sv = [s \in Savers |-> Idle]
    /\ last = NoCall
    /\ post = Quiet
    /\ put = Quiet
    /\ sw = Asleep
    /\ get = NoList
    /\ del = NoDelete
    /\ cfg = [n |-> 0, b |-> 1, r |-> DefaultRate, zone |-> UtcNoon]
    /\ pl = Ready
    /\ drv = Parked

Next ==
    \/ \E s \in Savers : SaveBegin(s)
    \/ \E s \in Savers : SaveCheck(s)
    \/ \E s \in Savers : SaveInsert(s)
    \/ PostValidate
    \/ PostSave
    \/ PutValidate
    \/ PutFind
    \/ PutSave
    \/ DeleteFind
    \/ DeleteRemove
    \/ SweepFind
    \/ SweepFound
    \/ SweepOne
    \/ Tick

Spec == Init /\ [][Next]_vars

\* one scraper run with the collection to itself
SchedInit ==
    /\ store \in Seeds
    /\ nextId = Cardinality(store) + 1
    /\ now = 0
    /\ pairIndex \in BOOLEAN
    /\ ops = 0
    /\ sv = [s \in Savers |-> Idle]
    /\ last = NoCall
    /\ post = Quiet
    /\ put = Quiet
    /\ sw = Asleep
    /\ get = NoList
    /\ del = NoDelete
    /\ cfg \in [n : 0..MaxPosts, b : 1..MaxBatch, r : Rates, zone : {UtcNoon}]
    /\ pl = Ready
    /\ drv = Parked

SchedNext ==
    \/ BatchStart
    \/ Extract
    \/ Delay
    \/ SaveNext
    \/ SaveNextInsert
    \/ BatchEnd
    \/ Pause

SchedSpec == SchedInit /\ [][SchedNext]_vars

\* one run of reddit-scraper.js from main() to process.exit, the collection to itself
MainInit ==
    /\ store = {SeedA}
    /\ nextId = 3
    /\ now = 0
    /\ pairIndex = FALSE
    /\ ops = 0
    /\ sv = [s \in Savers |-> Idle]
    /\ last = NoCall
    /\ post = Quiet
    /\ put = Quiet
    /\ sw = Asleep
    /\ get = NoList
    /\ del = NoDelete
    /\ cfg \in [n : {0}, b : 0..MaxBatch, r : {DefaultRate}, zone : {UtcNoon}]
    /\ pl = [Ready EXCEPT !.pc = "wait"]
    /\ drv \in {[Parked EXCEPT !.pc = "main", !.maxPages = m] : m \in 0..MaxPages}

MainNext ==
    \/ ScrapeStart
    \/ FetchPage
    \/ PageWait
    \/ MainBranch
    \/ BatchStart
    \/ TitleFault
    \/ Extract
    \/ Delay
    \/ SaveNext
    \/ SaveNextInsert
    \/ BatchEnd
    \/ Pause
    \/ MainReport
    \/ MainCatch
    \/ MainFinally
    \/ ProcessExit

MainSpec == MainInit /\ [][MainNext]_vars

\* every awaited operation of the run settles and every timer fires
MainFair == MainSpec /\ WF_vars(MainNext)

\* a run over two posts in every time zone and at every time of day
ZoneInit ==
    /\ store = {}
    /\ nextId = 1
    /\ now \in 0..MaxTime
    /\ pairIndex = FALSE
    /\ ops = 0
    /\ sv = [s \in Savers |-> Idle]
    /\ last = NoCall
    /\ post = Quiet
    /\ put = Quiet
    /\ sw = Asleep
    /\ get = NoList
    /\ del = NoDelete
    /\ cfg \in [n : {2}, b : 1..2, r : {DefaultRate}, zone : Zones]
    /\ pl = Ready
    /\ drv = Parked

ZoneSpec == ZoneInit /\ [][SchedNext]_vars

\* the steps of the sweeper when the store answers its operations
SweepFoundOk == SweepFound /\ ~sw'.err
SweepOneOk == SweepOne /\ ~sw'.err

\* the saves of one scraper run next to the sweeper on its timer
LiveNext ==
    \/ SaveBegin("run1")
    \/ SaveCheck("run1")
    \/ SaveInsert("run1")
    \/ SweepTimer
    \/ SweepFoundOk
    \/ SweepOneOk
    \/ Tick

\* the server started on a collection that carries the index of models/Referral.js
LiveInit == Init /\ ~pairIndex

\* the timer keeps firing and every save() of a pass settles
LiveSpec ==
    /\ LiveInit
    /\ [][LiveNext]_vars
    /\ WF_vars(SweepTimer)
    /\ WF_vars(SweepFoundOk)
    /\ WF_vars(SweepOneOk)

\* documents of every age and validity that a start of the server can find
Aged ==
    {[id |-> 1, brand |-> "acme", code |-> "c1", link |-> "l1", exp |-> Soon,
      isValid |-> TRUE, lastValidated |-> 0, tags |-> {}, postDate |-> 0],
     [id |-> 2, brand |-> "acme", code |-> Absent, link |-> "l2", exp |-> Soon,
      isValid |-> TRUE, lastValidated |-> 0, tags |-> {}, postDate |-> 0],
     [id |-> 3, brand |-> "acme", code |-> "c2", link |-> "l1", exp |-> Soon,
      isValid |-> FALSE, lastValidated |-> 0, tags |-> {}, postDate |-> 0],
     [id |-> 4, brand |-> "acme", code |-> "c1", link |-> Absent, exp |-> Late,
      isValid |-> TRUE, lastValidated |-> 0, tags |-> {}, postDate |-> 0],
     [id |-> 5, brand |-> "acme", code |-> "c2", link |-> Absent, exp |-> Soon - 1,
      isValid |-> TRUE, lastValidated |-> 0, tags |-> {}, postDate |-> 0]}

\* the server with no request coming in: the timer and the clock only
SweepInit ==
    /\ store \in SUBSET Aged
    /\ nextId = 6
    /\ now = 0
    /\ pairIndex = FALSE
    /\ ops = 0
    /\ sv = [s \in Savers |-> Idle]
    /\ last = NoCall
    /\ post = Quiet
    /\ put = Quiet
    /\ sw = Asleep
    /\ get = NoList
    /\ del = NoDelete
    /\ cfg = [n |-> 0, b |-> 1, r |-> DefaultRate, zone |-> UtcNoon]
    /\ pl = Ready
    /\ drv = Parked

SweepNext ==
    \/ SweepFind
    \/ SweepFound
    \/ SweepOne
    \/ Tick

SweepSpec == SweepInit /\ [][SweepNext]_vars

\* a record a pass invalidated after a PUT had moved its date on
Raced == [id |-> Cardinality(Aged) + 1, brand |-> "acme", code |-> "c3", link |-> Absent,
          exp |-> Late, isValid |-> FALSE, lastValidated |-> 0, tags |-> {}, postDate |-> 0]

\* records the scraper saved from posts of different age (the newest post was saved
\* first), and two of one post date, one of them tagged
Fresh ==
    {[id |-> Cardinality(Aged) + 2, brand |-> "acme", code |-> "c4", link |-> Absent,
      exp |-> Late, isValid |-> TRUE, lastValidated |-> 0, tags |-> {}, postDate |-> Created(3)],
     [id |-> Cardinality(Aged) + 3, brand |-> "bolt", code |-> "c1", link |-> Absent,
      exp |-> Late, isValid |-> TRUE, lastValidated |-> 0, tags |-> {"zeta", "food"},
      postDate |-> Created(5)],
     [id |-> Cardinality(Aged) + 4, brand |-> "bolt", code |-> "c2", link |-> Absent,
      exp |-> Late, isValid |-> TRUE, lastValidated |-> 0, tags |-> {}, postDate |-> Created(5)]}

\* the server answering list requests next to the sweeper
ListNext ==
    \/ SweepFind
    \/ SweepFound
    \/ SweepOne
    \/ Tick
    \/ GetList
    \/ GetFound

\* the collection holds unexpired, expired and invalidated records
ListInit ==
    /\ \E old \in SUBSET (Aged \cup {Raced}), new \in {{}, Fresh} : store = old \cup new
    /\ nextId = Cardinality(Aged) + 5
    /\ now = 0
    /\ pairIndex = FALSE
    /\ ops = 0
    /\ sv = [s \in Savers |-> Idle]
    /\ last = NoCall
    /\ post = Quiet
    /\ put = Quiet
    /\ sw = Asleep
    /\ get = NoList
    /\ del = NoDelete
    /\ cfg = [n |-> 0, b |-> 1, r |-> DefaultRate, zone |-> UtcNoon]
    /\ pl = Ready
    /\ drv = Parked

ListSpec == ListInit /\ [][ListNext]_vars

(***************************************************************************)
(* Properties of saveReferralToDb and of the store.                        *)
(***************************************************************************)
Holding(c) == {r \in store : Triple(r) = Triple(c)}
HasKey(c) == ~c.isNull /\ c.brand \notin {Absent, ""} /\ (c.code \notin {Absent, ""} \/ c.link \notin {Absent, ""})

\* C1, as stated: after two successive calls of saveReferralToDb with the same
\* (brand, code, link), brand non-empty and a code or a link present, exactly one
\* stored document has that triple and the second call has returned false
\* (calls that met a store error or an unparsable date left aside).
C1_SaveTwiceStoresOne ==
    (/\ HasKey(last.cand)
     /\ last.prev \in {"inserted", "dup", "e11000"}
     /\ last.out \in {"inserted", "dup", "e11000"})
        => (~last.ret /\ Cardinality(Holding(last.cand)) = 1)

\* C1, amended: two successive calls with the same triple, no other writer in
\* between, never leave more than one document with that triple; the second call
\* returns false unless the first ended on a store error or an unparsable date;
\* and when the first call returned true exactly one document has the triple.
C1_SaveTwiceAfterInsert ==
    /\ (last.prev # "none" /\ HasKey(last.cand)) => Cardinality(Holding(last.cand)) <= 1
    /\ last.prev \in {"inserted", "dup", "e11000"} => ~last.ret
    /\ last.prev = "inserted" => Cardinality(Holding(last.cand)) = 1

\* the second call of a link-only candidate, turned down by the unique index
C1_Witness ==
    /\ last.prev = "inserted" /\ ~last.ret
    /\ last.cand.code = Absent /\ last.out = "e11000"
    /\ Cardinality(Holding(last.cand)) = 1

\* C2: a saveReferralToDb call whose candidate has a code and a link, and that runs
\* its duplicate check while a stored document of the same brand has that code or
\* that link, returns false from the check and leaves the store as it was.
C2_CodeOrLinkMatchSkips ==
    [][\A s \in Savers :
         (/\ sv[s].pc = "check" /\ sv'[s] # sv[s]
          /\ last'.out # "storeError"
          /\ Truthy(sv[s].cand.code) /\ Truthy(sv[s].cand.link)
          /\ \E r \in store : /\ r.brand = sv[s].cand.brand
                              /\ (r.code = sv[s].cand.code \/ r.link = sv[s].cand.link))
         => (sv'[s].pc = "idle" /\ ~last'.ret /\ store' = store)]_vars

\* C4: no two stored documents have the same (brand, code, link).
C4_TripleUnique ==
    \A r1, r2 \in store : Triple(r1) = Triple(r2) => r1 = r2

\* a write turned down by the index while the store holds two documents
C4_Witness ==
    /\ Cardinality(store) >= 2
    /\ last.out = "e11000"
    /\ Holding(last.cand) # {}

\* C5: every write of a sweeper pass leaves the document with isValid = false and
\* with lastValidated at the time of the pass.
C5_SweepRefreshesLastValidated ==
    [][(sw.pc = "run" /\ sw' # sw /\ store' # store)
         => (/\ Has(store', Head(sw.q))
             /\ ~Doc(store', Head(sw.q)).isValid
             /\ Doc(store', Head(sw.q)).lastValidated = now)]_vars

\* C6: when a pass has ended after the save of one document failed, every other
\* document the pass selected (and that is still stored) has been invalidated.
C6_SweepErrorIsolated ==
    (sw.pc = "idle" /\ sw.err /\ sw.bad # 0)
        => \A id \in sw.sel \ {sw.bad} : Has(store, id) => ~Doc(store, id).isValid

\* C7: a call whose candidate is null, lacks a brand, or lacks both code and link
\* returns false at the guard, before checkDuplicate and save, without having
\* issued a store operation.
C7_PreCheckNoStoreAccess ==
    (last.out # "none" /\ ~HasKey(last.cand))
        => (last.out = "precheck" /\ ~last.ret /\ last.acc = 0)

\* such a call has returned: the candidate has a brand but neither code nor link
C7_Witness ==
    /\ last.out = "precheck" /\ ~last.cand.isNull
    /\ last.cand.brand = "acme" /\ ~last.ret /\ last.acc = 0

\* the step in which the call of run s returns from its check or its insert
Returns(s) == sv[s].pc \in {"check", "insert"} /\ sv'[s].pc # sv[s].pc /\ sv'[s].pc # "insert"
MatchedBy(c, S) ==
    \E r \in S : /\ r.brand = c.brand
                 /\ ((Truthy(c.code) /\ r.code = c.code) \/ (Truthy(c.link) /\ r.link = c.link))

\* C8: a call returns true exactly when it has added one document, valid and with
\* the candidate's fields; a call that returns false leaves the store as it was;
\* and a candidate with brand, code or link and a date, matched by no stored
\* document of its brand on code or on link, is inserted (store errors aside).
C8_TrueIffInserted ==
    [][\A s \in Savers : Returns(s) =>
         LET c == sv[s].cand
         IN  /\ last'.ret =>
                  \E d \in store' \ store :
                      /\ store' = store \cup {d}
                      /\ Triple(d) = Triple(c) /\ d.exp = c.exp /\ d.isValid
             /\ ~last'.ret => store' = store
             /\ (c.exp # BadDate /\ last'.out # "storeError" /\ ~MatchedBy(c, store))
                  => last'.ret]_vars

\* C9: a call whose insert finds its triple already stored (the check had passed:
\* another saver inserted it in between) returns false without raising, the
\* triple is stored once, and no scraper run has been ended by an exception.
C9_RaceLoserReturnsFalse ==
    /\ (last.out = "e11000" /\ Holding(last.cand) # {})
          => (~last.ret /\ ~last.raised /\ Cardinality(Holding(last.cand)) = 1)
    /\ \A s \in Savers : sv[s].pc # "raised"

\* the race: the candidate has a code, so its check saw no document with that
\* brand and code, and its insert met one with the same triple
C9_Witness ==
    /\ last.out = "e11000" /\ Truthy(last.cand.code)
    /\ Cardinality(Holding(last.cand)) = 1
    /\ ~last.ret /\ \A s \in Savers : sv[s].pc = "idle"

(***************************************************************************)
(* Properties of the batch scheduler and of extraction.                    *)
(***************************************************************************)
\* C3: for every post list of length N, batch size B >= 1 and budget R >= 1,
\* processPostsInBatches invokes extractPostDetails exactly N times; the wait
\* between any two consecutive invocations, those on either side of a batch
\* boundary included, is at least D = ceil(60000 / R) milliseconds; no wait
\* follows the final invocation.
\* (wait >= ceil(60000 / R) is wait * R >= 60000 for whole numbers.)
C3_WaitsBetweenCalls ==
    /\ pl.calls <= cfg.n
    /\ pl.calls >= 2 => pl.lastGap * cfg.r >= 60000
    /\ pl.pc = "done" => (pl.calls = cfg.n /\ pl.gap = 0)

\* some stretch of the reply is a well-formed JSON object
C10_HoldsObject(t) ==
    \E a \in 1..Len(t) : \E b \in a..Len(t) :
        /\ t[a] = "{" /\ t[b] = "}"
        /\ (b = a + 1 \/ (b = a + 2 /\ t[a + 1] = "m"))

\* the model call failed, or its reply holds no JSON object, or a truncated or malformed one
C10_Failed(o) == o.err \/ ~C10_HoldsObject(o.text)

\* C10: extractPostDetails never throws past its boundary: when the model call
\* fails, or the reply holds no well-formed JSON object (none at all, a truncated
\* one, a malformed one), the result is null, the post yields no entry in the
\* batch's results, and no post is asked about twice.
C10_ExtractionNeverThrows ==
    /\ pl.pc # "crashed"
    /\ \A p \in 1..MaxPosts : pl.asked[p] <= 1
    /\ (pl.got # "none" /\ C10_Failed(pl.reply))
          => (pl.got = "null" /\ \A e \in 1..Len(pl.results) : pl.results[e].post # pl.cur)

\* a reply cut off inside its object ("Sure! {members") was dropped and the batch went on
C10_Witness ==
    /\ pl.reply = [err |-> FALSE, text |-> <<"t", "{", "m">>]
    /\ pl.got = "null"
    /\ pl.pc = "delay" /\ pl.results = << >> /\ pl.asked[pl.cur] = 1

\* C11, first part: the count processPostsInBatches returns is the number of
\* records the run has inserted (true at every point of the save loop).
C11_CountIsInserted ==
    pl.total = pl.tally.ins

\* C11: when processPostsInBatches has returned (no save having met a store or
\* validation error, the collection carrying only the index on brand, code and
\* link), its count is the number of records inserted during the run,
\* and that is the number of extractions that were non-null and eligible minus
\* the number of those that duplicated a stored record (same brand and the same
\* code or the same link) when they were saved.
C11_SavedCount ==
    (pl.pc = "done" /\ pl.tally.clean /\ ~pairIndex)
        => (pl.total = pl.tally.ins /\ pl.total = pl.tally.elig - pl.tally.dups)

\* C12: when a pass of validateExpiredCodes starts right after a completed pass
\* (same clock reading, no error in the first pass), its filter matches no stored
\* record: what the first pass invalidated is not selected again. And a pass
\* whose filter matches no record when the store answers selects none and
\* changes none.
C12_SecondPassSelectsNothing ==
    /\ [][(/\ sw.pc = "idle" /\ ~sw.err /\ sw.sel # {} /\ sw.at = now
            /\ sw'.pc = "find")
             => (sw'.at = sw.at /\ Expired(store, sw'.at) = {} /\ store' = store)]_vars
    /\ [][(sw.pc = "find" /\ Expired(store, sw.at) = {} /\ sw' # sw /\ ~sw'.err)
             => (sw'.sel = {} /\ sw'.pc = "idle" /\ store' = store)]_vars

\* the second pass has run after a pass that invalidated at least two records
C12_Witness ==
    /\ ops = 2 /\ sw.pc = "idle" /\ sw.sel = {} /\ ~sw.err /\ sw.at = now
    /\ Cardinality({r \in store : ~r.isValid /\ r.exp < now}) >= 3

(***************************************************************************)
(* Properties of the driver.                                               *)
(***************************************************************************)
\* C13: scrapeAllPosts issues at most maxPages fetches; after a fetch that failed,
\* returned an empty page or returned no continuation token it fetches no more;
\* a failed fetch raises nothing; and allPosts holds every post the feed served,
\* in the order served.
C13_ScrapeStops ==
    /\ drv.fetches <= drv.maxPages
    /\ ~drv.threw
    /\ drv.lastFetch \in {"failed", "empty", "last"} => drv.pc \notin {"pages", "pagewait"}
    /\ drv.allPosts = [i \in 1..drv.served |-> i]

\* the second fetch failed and the run goes on with the posts of the first page
C13_Witness ==
    /\ drv.lastFetch = "failed" /\ drv.fetches = 2
    /\ Len(drv.allPosts) >= 1 /\ drv.pc = "process"

\* the record extractPostDetails has just returned
C14_Returned == pl.results[Len(pl.results)].cand

\* the calendar day of the extraction in the process's time zone
C14_LocalDay == (now * 24 + cfg.zone.hour + cfg.zone.tz) \div 24

\* C14: when the decoded reply has no expirationDate, the returned record's
\* expirationDate is the calendar date of the extraction (in UTC or in the
\* process's time zone) plus 30 days; a supplied expirationDate is kept.
C14_DefaultExpiryPlus30 ==
    pl.got = "record"
        => IF pl.decoded.exp = NoDate
           THEN C14_Returned.exp \in {now + 30, C14_LocalDay + 30}
           ELSE C14_Returned.exp = pl.decoded.exp

\* ceil(N / B) for the run's N and B
C15_Chunks == CHOOSE k \in 0..cfg.n : k * cfg.b >= cfg.n /\ (k - 1) * cfg.b < cfg.n

\* C15: processPostsInBatches cuts N >= 1 posts into ceil(N / B) consecutive chunks
\* of B posts (the last one possibly shorter), asks about the posts strictly in
\* order, and pauses once after every chunk but the last: ceil(N / B) - 1 pauses.
C15_ChunksAndPauses ==
    /\ pl.cur = pl.calls
    /\ \A c \in 1..Len(pl.chunks) :
          /\ pl.chunks[c].from = (c - 1) * cfg.b + 1
          /\ pl.chunks[c].len = IF c * cfg.b <= cfg.n THEN cfg.b ELSE cfg.n - (c - 1) * cfg.b
          /\ pl.chunks[c].len >= 1
    /\ pl.pc \in {"extract", "delay", "save", "pause"} => pl.pauses = Len(pl.chunks) - 1
    /\ (pl.pc = "done" /\ cfg.n >= 1)
          => (Len(pl.chunks) = C15_Chunks /\ pl.pauses = C15_Chunks - 1 /\ pl.done = cfg.n)

\* three posts in chunks of two: a chunk of two, one pause, a chunk of one, no pause
C15_Witness ==
    /\ pl.pc = "done" /\ cfg.n = 3 /\ cfg.b = 2
    /\ Len(pl.chunks) = 2 /\ pl.chunks[2].len = 1 /\ pl.pauses = 1

(***************************************************************************)
(* Properties of the sweeper next to the other writers.                    *)
(***************************************************************************)
\* record id is stored, its expiration date has passed and it still counts as valid
C16_Overdue(id) == \E r \in store : r.id = id /\ r.exp < now /\ r.isValid

\* C16: saveReferralToDb stores a candidate whose expirationDate is already past
\* as it is, with isValid = true; and, the timer firing again and again and the
\* store answering the sweeper, every stored record that is expired and valid
\* is eventually no longer so (the next pass sets isValid = false).
C16_PastDateEventuallyInvalid ==
    /\ [][\A s \in Savers :
            (sv[s].pc = "insert" /\ sv[s].cand.exp < now /\ last'.ret /\ last'.by = s
             /\ sv'[s].pc = "idle")
              => \E d \in store' \ store : d.exp = sv[s].cand.exp /\ d.isValid]_vars
    /\ \A id \in 1..(MaxOps + 2) : [](C16_Overdue(id) => <>(~C16_Overdue(id)))

\* a record that was inserted after its expiration date has been invalidated
C16_Witness ==
    \E r \in store : r.id > 2 /\ r.exp < r.lastValidated /\ ~r.isValid

\* C17: when a pass of the sweeper has completed while a scraper run was saving,
\* the store is the one a serial order leaves: the saves that inserted before
\* the pass's query, then the pass, then the other saves. Every record the pass
\* selected is invalid; the invalid records are exactly those that were stored
\* and expired when the query ran; and every record that was inserted is stored.
C17_SweepAndSavesSerial ==
    /\ \A id \in 1..(nextId - 1) : Has(store, id)
    /\ (sw.pc = "idle" /\ ~sw.err)
          => /\ \A r \in store : r.id \in sw.sel => ~r.isValid
             /\ \A r \in store : ~r.isValid <=> (r.id < sw.upto /\ r.exp < sw.at)

\* a pass has invalidated a record while the run inserted one that was already
\* expired: the pass did not see it and it is still valid
C17_Witness ==
    /\ sw.pc = "idle" /\ ~sw.err /\ sw.sel # {}
    /\ sv["run1"].pc = "idle" /\ last.ret
    /\ \E r \in store : r.id >= sw.upto /\ r.exp < sw.at /\ r.isValid
    /\ \E r \in store : r.id \in sw.sel /\ ~r.isValid

\* C18: a step of the sweeper's loop inserts and deletes nothing, and the only
\* record it changes is one that is valid and whose stored expirationDate is
\* before the clock at the write; of that record it changes isValid, to false,
\* and leaves brand, code, link and expirationDate as they are stored.
C18_SweepFrame ==
    [][(sw.pc = "run" /\ sw' # sw)
          => /\ {r.id : r \in store'} = {r.id : r \in store}
             /\ \A r \in store :
                  Doc(store', r.id) # r
                      => /\ r.isValid /\ r.exp < now
                         /\ ~Doc(store', r.id).isValid
                         /\ Doc(store', r.id).brand = r.brand
                         /\ Doc(store', r.id).code = r.code
                         /\ Doc(store', r.id).link = r.link
                         /\ Doc(store', r.id).exp = r.exp]_vars

\* C19: a run of main makes at most maxPages fetches and at most one extraction
\* per collected post, has logged its outcome (no posts, completion or the
\* exception) when the grace timer is armed, and reaches process exit.
C19_MainTerminates ==
    /\ [](drv.fetches <= drv.maxPages /\ pl.calls <= Len(drv.allPosts))
    /\ [](drv.pc \in {"grace", "exited"} => drv.outcome \in {"noPosts", "complete", "error"})
    /\ <>(drv.pc = "exited")

\* the same for a run whose batch size is 1 or more
C19_PositiveBatch ==
    cfg.b >= 1 => C19_MainTerminates

\* C20: the list a GET /api/referrals answers with holds only records that
\* were valid and whose expirationDate was after the time of the request.
C20_ListOnlyValidUnexpired ==
    \A k \in 1..Len(get.list) : get.list[k].isValid /\ get.list[k].exp > get.at

\* a list was answered while the store held a record that is expired and still
\* valid, one that is invalid with a date still to come, and one that is listed
C20_Witness ==
    /\ get.status = 200 /\ get.pc = "idle" /\ Len(get.list) > 0
    /\ \E r \in store : r.isValid /\ r.exp < now
    /\ \E r \in store : ~r.isValid /\ r.exp > now

\* the candidate the save loop of the run hands to saveReferralToDb next
C21_Next == pl.results[pl.j + 1].cand

C21_Stored(S, c) == \E r \in S : r.brand = c.brand /\ r.code = c.code

\* the a-th record of the batch, and whether it has a brand and a code
C21_Rec(a) == pl.results[a].cand
C21_Coded(a) == Truthy(C21_Rec(a).brand) /\ Truthy(C21_Rec(a).code)
C21_SameKey(a, b) ==
    C21_Rec(a).brand = C21_Rec(b).brand /\ C21_Rec(a).code = C21_Rec(b).code

\* no record before the a-th in feed order has its brand and code
C21_Earliest(a) == \A b \in 1..(a - 1) : ~C21_SameKey(b, a)

\* the store holds the document made of the a-th record: postDate is the
\* created_utc of its post
C21_Persisted(a) ==
    \E d \in store : /\ d.postDate = Created(pl.results[a].post)
                     /\ d.brand = C21_Rec(a).brand /\ d.code = C21_Rec(a).code

\* the store holds a document with the brand and code of the a-th record that no
\* post of the run was the source of
C21_Before(a) ==
    \E d \in store : /\ d.postDate \notin {Created(p) : p \in 1..MaxPosts}
                     /\ d.brand = C21_Rec(a).brand /\ d.code = C21_Rec(a).code

\* the first batch of the run is in its save loop: records 1..pl.j have been
\* through saveReferralToDb, and no post of the run came before them
C21_FirstBatch == pl.pc \in {"save", "insert"} /\ pl.i = 0

\* every extraction of a batch is made before its first save, the saves go in
\* post order, and the posts before the batch are all done when it extracts
C21_Order ==
    /\ pl.pc \in {"save", "insert"} => pl.k = BatchLen(pl.i)
    /\ pl.pc \in {"extract", "delay"} => pl.done = pl.i /\ pl.j = 0
    /\ \A a, b \in 1..Len(pl.results) :
          a < b => pl.results[a].post < pl.results[b].post

\* C21, as the spec has it: when several records of a run have the same brand
\* and code, the one earliest in feed order is persisted and no later one is.
C21_EarliestPersisted ==
    C21_FirstBatch =>
        \A a \in 1..pl.j :
            (C21_Coded(a) /\ \E b \in 1..pl.j : b # a /\ C21_SameKey(a, b))
                => (C21_Persisted(a) <=> C21_Earliest(a))

\* C21, amended: the order of extractions and saves is as stated. A record whose
\* brand and code the store holds when checkDuplicate is answered is skipped and
\* the store is left as it is; one whose brand and code it does not hold is
\* inserted unless the check or the save() ends in the catch block (a store error,
\* or a validation error for an expirationDate that is no date), and then nothing
\* is written and the loop goes on. So of the records of a run with one brand and
\* code at most one is persisted, and none when the store held that brand and code
\* before the run or when every save of them failed; the earliest in feed order is
\* the one persisted when the store did not hold the brand and code before the run
\* and no call of the run ended in the catch block.
C21_EarliestSavedPersisted ==
    /\ []C21_Order
    /\ [](C21_FirstBatch =>
            \A a \in 1..pl.j :
                C21_Coded(a) =>
                    /\ C21_Persisted(a) =>
                          /\ ~C21_Before(a)
                          /\ \A b \in 1..pl.j :
                                (b # a /\ C21_SameKey(a, b)) => ~C21_Persisted(b)
                    /\ C21_Rec(a).exp = BadDate => ~C21_Persisted(a)
                    /\ C21_Before(a) => ~C21_Persisted(a)
                    /\ (pl.tally.clean /\ ~C21_Before(a))
                          => (C21_Persisted(a) <=> C21_Earliest(a)))
    /\ [][(/\ pl.pc = "save" /\ pl.j < Len(pl.results) /\ pl' # pl
            /\ C21_Coded(pl.j + 1))
              => /\ store' = store /\ pl'.total = pl.total
                 /\ IF C21_Stored(store, C21_Next)
                    THEN pl'.j = pl.j + 1 /\ pl'.pc = "save"
                    ELSE \/ pl'.pc = "insert" /\ pl'.j = pl.j
                         \/ ~pl'.tally.clean /\ pl'.pc = "save" /\ pl'.j = pl.j + 1]_vars
    /\ [][(/\ pl.pc = "insert" /\ pl' # pl
            /\ C21_Coded(pl.j + 1)
            /\ ~C21_Stored(store, C21_Next))
              => /\ pl'.j = pl.j + 1 /\ pl'.pc = "save"
                 /\ \/ /\ C21_Next.exp # BadDate
                       /\ pl'.total = pl.total + 1
                       /\ pl'.tally.clean = pl.tally.clean
                       /\ \E d \in store' \ store :
                            /\ store' = store \cup {d}
                            /\ d.brand = C21_Next.brand /\ d.code = C21_Next.code
                            /\ d.postDate = C21_Next.postDate
                    \/ /\ ~pl'.tally.clean
                       /\ store' = store /\ pl'.total = pl.total]_vars

\* the first record of a run had an expirationDate that is no date and its save
\* ended in the catch block; the second, with the same brand and code, was inserted
C21_Witness ==
    /\ C21_FirstBatch /\ pl.j >= 2
    /\ C21_Coded(1) /\ C21_SameKey(1, 2)
    /\ C21_Rec(1).exp = BadDate
    /\ ~C21_Persisted(1) /\ C21_Persisted(2)

\* the brand of the body together with its code or its link is that of a record
C22_Matches(S, b) ==
    \E r \in S : /\ r.brand = b.brand
                  /\ \/ Truthy(b.code) /\ r.code = b.code
                     \/ Truthy(b.link) /\ r.link = b.link

\* C22: the validation of a PUT leaves the store as it is, and lets a request
\* through only when its body matches no stored record; every other request is
\* answered 400 with the errors of the validation. So no request that passed
\* carries the brand and the code of the record it is about.
C22_PutRejectsMatch ==
    [][(put.pc = "idle" /\ put' # put)
          => /\ store' = store
             /\ put'.pc = "find"
                  => /\ ~C22_Matches(store, put'.body)
                     /\ \A r \in store :
                          r.id = put'.id
                              => ~(r.brand = put'.body.brand /\ Truthy(r.code)
                                   /\ r.code = put'.body.code)
             /\ put'.pc # "find"
                  => put'.status = 400 /\ put'.pc = "idle" /\ put'.errors # {}]_vars

\* a PUT was answered 400 because the referral exists, and the only record of
\* the store is the one the request was about
C22_Witness ==
    /\ put.status = 400 /\ put.pc = "idle"
    /\ "This referral already exists for this brand" \in put.errors
    /\ \E r \in store : r.id = put.id /\ store = {r}

\* the reading of the clock that save() made in the call whose write the store
\* applies in this step
C23_Clock ==
    IF post.pc = "save" /\ post' # post THEN post.at
    ELSE IF put.pc = "save" /\ put' # put THEN put.at
    ELSE IF \E s \in Savers : sv[s].pc = "insert" /\ sv'[s] # sv[s]
    THEN sv[CHOOSE s \in Savers : sv[s].pc = "insert" /\ sv'[s] # sv[s]].at
    ELSE now

\* C23: a step that adds a record, or changes the code or the link of one, leaves
\* it with isValid = true and lastValidated at the clock reading of its save(); a
\* step that changes a record and neither its code nor its link leaves its
\* lastValidated as it was.
C23_SaveRevalidates ==
    [][\A d \in store' :
         IF ~Has(store, d.id)
         THEN d.isValid /\ d.lastValidated = C23_Clock
         ELSE IF Doc(store, d.id).code # d.code \/ Doc(store, d.id).link # d.link
         THEN d.isValid /\ d.lastValidated = C23_Clock
         ELSE d.lastValidated = Doc(store, d.id).lastValidated]_vars

====
